---- MODULE Spec2Model ----
(***************************************************************************)
(* Model of time_ms_conversions (src/src/lib.rs): conversions between a    *)
(* signed 64-bit count of milliseconds since the epoch, chrono date-times  *)
(* and date-time strings.                                                  *)
(*                                                                         *)
(* The library is stateless, so the state machine is the caller's view:    *)
(* each action is one call of a function of lib.rs, and the state records  *)
(* the call made (op, arg) and what it returned (ret).  The environment    *)
(* the code reads is part of the state: the build profile (whether integer *)
(* overflow panics or wraps) and the process's local timezone.             *)
(*                                                                         *)
(* TLC's integers are 32 bits wide; the program's are i64 and u32.  Every  *)
(* program integer is therefore a "wide" integer: a sign and a magnitude   *)
(* of NL limbs in base 10000, least significant limb first.  W(n) makes a  *)
(* wide integer from a small one and N(w) reads a small one back.          *)
(***************************************************************************)
EXTENDS Integers, Sequences, FiniteSets, TLC

VARIABLES build, tz, op, arg, ret, origin

vars == <<build, tz, op, arg, ret, origin>>

----------------------------------------------------------------------------
(* Wide integers: magnitudes                                               *)

Base == 10000
NL == 7
Limbs == 1..NL

\* The one element of a singleton.  An operator that uses an argument many
\* times binds it through a singleton first, so that the argument is
\* evaluated once: Only({F(x) : x \in {e}}) is F(e).
Only(S) == CHOOSE x \in S : TRUE

MZero == [i \in Limbs |-> 0] \o <<>>

\* The magnitude of a natural number below 2^31.
MOfNat(n) ==
    Only({[i \in Limbs |-> IF i = 1 THEN k % Base
                           ELSE IF i = 2 THEN (k \div Base) % Base
                           ELSE IF i = 3 THEN k \div (Base * Base)
                           ELSE 0] \o <<>> : k \in {n}})

\* -1, 0 or 1 as a < b, a = b, a > b.
MCmp(a, b) ==
    Only({LET c[i \in 0..NL] ==
                  IF i = 0 THEN 0
                  ELSE IF x[i] > y[i] THEN 1
                  ELSE IF x[i] < y[i] THEN -1
                  ELSE c[i - 1]
          IN c[NL] : x \in {a}, y \in {b}})

MAdd(a, b) ==
    Only({LET c[i \in 1..NL + 1] ==
                  IF i = 1 THEN 0 ELSE (x[i - 1] + y[i - 1] + c[i - 1]) \div Base
          IN [i \in Limbs |-> (x[i] + y[i] + c[i]) % Base] \o <<>>
          : x \in {a}, y \in {b}})

\* a - b for a >= b.
MSub(a, b) ==
    Only({LET br[i \in 1..NL + 1] ==
                  IF i = 1 THEN 0
                  ELSE IF x[i - 1] - y[i - 1] - br[i - 1] < 0 THEN 1 ELSE 0
          IN [i \in Limbs |-> (x[i] - y[i] - br[i] + Base) % Base] \o <<>>
          : x \in {a}, y \in {b}})

\* a * k for 0 <= k <= 200000.
MMulSmall(a, k) ==
    Only({LET c[i \in 1..NL + 1] ==
                  IF i = 1 THEN 0 ELSE (x[i - 1] * k + c[i - 1]) \div Base
          IN [i \in Limbs |-> (x[i] * k + c[i]) % Base] \o <<>>
          : x \in {a}})

\* The remainders of the long division of a by d, 0 < d <= 200000:
\* r[i] is what is left after limb i, r[1] the remainder of a.
MRems(a, d) ==
    Only({LET r[i \in 1..NL + 1] ==
                  IF i = NL + 1 THEN 0 ELSE (r[i + 1] * Base + x[i]) % d
          IN [i \in 1..NL + 1 |-> r[i]] \o <<>> : x \in {a}})

MDivSmall(a, d) ==
    Only({[i \in Limbs |-> (r[i + 1] * Base + x[i]) \div d] \o <<>>
          : x \in {a}, r \in {MRems(a, d)}})

MModSmall(a, d) == MRems(a, d)[1]

\* Powers of two, built from 2^16 = 65536.
Two16 == 65536
MPow2_16 == MOfNat(Two16)
MPow2_32 == MMulSmall(MPow2_16, Two16)
MPow2_48 == MMulSmall(MPow2_32, Two16)
MPow2_64 == MMulSmall(MPow2_48, Two16)
MPow2_63 == MDivSmall(MPow2_64, 2)

\* a mod 2^32 and a mod 2^64, from the base-65536 digits of a.
MMod2_32(a) ==
    Only({MAdd(MOfNat(MModSmall(x, Two16)),
               MMulSmall(MOfNat(MModSmall(MDivSmall(x, Two16), Two16)), Two16))
          : x \in {a}})

MMod2_64(a) ==
    Only({MAdd(MMod2_32(x),
               MMulSmall(MMulSmall(MMod2_32(MDivSmall(MDivSmall(x, Two16), Two16)),
                                   Two16), Two16))
          : x \in {a}})

----------------------------------------------------------------------------
(* Wide integers: signed values                                            *)

WMk(neg, mag) == Only({[neg |-> neg /\ m # MZero, mag |-> m] : m \in {mag}})

W(n) == IF n < 0 THEN WMk(TRUE, MOfNat(-n)) ELSE WMk(FALSE, MOfNat(n))

\* The small integer a wide integer of magnitude below 2^31 stands for.
N(w) ==
    Only({LET m == x.mag[1] + x.mag[2] * Base + x.mag[3] * Base * Base
          IN IF x.neg THEN -m ELSE m : x \in {w}})

WZero == W(0)

WNeg(w) == Only({WMk(~x.neg, x.mag) : x \in {w}})

WCmp(a, b) ==
    Only({IF x.neg # y.neg THEN (IF x.neg THEN -1 ELSE 1)
          ELSE IF x.neg THEN MCmp(y.mag, x.mag)
          ELSE MCmp(x.mag, y.mag) : x \in {a}, y \in {b}})

WLt(a, b) == WCmp(a, b) < 0
WLe(a, b) == WCmp(a, b) <= 0

WAdd(a, b) ==
    Only({IF x.neg = y.neg THEN WMk(x.neg, MAdd(x.mag, y.mag))
          ELSE IF MCmp(x.mag, y.mag) >= 0 THEN WMk(x.neg, MSub(x.mag, y.mag))
          ELSE WMk(y.neg, MSub(y.mag, x.mag)) : x \in {a}, y \in {b}})

WSub(a, b) == WAdd(a, WNeg(b))

WMulSmall(a, k) == Only({WMk(x.neg, MMulSmall(x.mag, k)) : x \in {a}})

\* Rust's / and % on integers: the quotient truncates toward zero and the
\* remainder has the sign of the dividend.
WDivTrunc(a, d) == Only({WMk(x.neg, MDivSmall(x.mag, d)) : x \in {a}})
WRemTrunc(a, d) == Only({WMk(x.neg, MOfNat(MModSmall(x.mag, d))) : x \in {a}})

\* The mathematical floor and non-negative remainder.
WDivFloor(a, d) ==
    Only({IF x.neg /\ MModSmall(x.mag, d) # 0
          THEN WSub(WDivTrunc(x, d), W(1))
          ELSE WDivTrunc(x, d) : x \in {a}})
WModFloor(a, d) == Only({WSub(x, WMulSmall(WDivFloor(x, d), d)) : x \in {a}})

----------------------------------------------------------------------------
(* Fixed-width integers: i64 and u32, and what overflow does               *)

I64Max == WMk(FALSE, MSub(MPow2_63, MOfNat(1)))
I64Min == WMk(TRUE, MPow2_63)
U32Max == WMk(FALSE, MSub(MPow2_32, MOfNat(1)))

FitsI64(w) == Only({WLe(I64Min, x) /\ WLe(x, I64Max) : x \in {w}})
FitsU32(w) == Only({WLe(WZero, x) /\ WLe(x, U32Max) : x \in {w}})

\* Two's complement wrapping to i64 and to u32 (also what `as u32` does).
WrapI64(w) ==
    Only({IF MCmp(u, MPow2_63) < 0 THEN WMk(FALSE, u)
          ELSE WMk(TRUE, MSub(MPow2_64, u))
          : u \in {Only({IF w.neg /\ r # MZero THEN MSub(MPow2_64, r) ELSE r
                         : r \in {MMod2_64(w.mag)}})}})

WrapU32(w) ==
    Only({IF w.neg /\ r # MZero THEN WMk(FALSE, MSub(MPow2_32, r))
          ELSE WMk(FALSE, r) : r \in {MMod2_32(w.mag)}})

\* The outcome of an evaluation: a value, or a panic.
Val(v) == [ok |-> TRUE, v |-> v]
Panic == [ok |-> FALSE, v |-> "panic"]

\* let x = e; F(x)
Let(e, F(_)) == Only({F(x) : x \in {e}})

\* F of the value of r, unless evaluating r panicked.
Then(r, F(_)) == Only({IF x.ok THEN F(x.v) ELSE Panic : x \in {r}})

\* An arithmetic result of type i64 (u32) whose mathematical value is w:
\* with overflow checks (a debug build) an overflow panics, without them
\* (a release build) it wraps.
I64Op(w) ==
    Only({IF FitsI64(x) THEN Val(x)
          ELSE IF build = "debug" THEN Panic
          ELSE Val(WrapI64(x)) : x \in {w}})
U32Op(w) ==
    Only({IF FitsU32(x) THEN Val(x)
          ELSE IF build = "debug" THEN Panic
          ELSE Val(WrapU32(x)) : x \in {w}})

----------------------------------------------------------------------------
(* time_ms_to_secs_nsecs                                                   *)

\* millis > 0: secs -= 1 and millis = 1_000 - millis; else both as they are.
AdjustNegative(secs, millis) ==
    IF WLt(WZero, millis)
    THEN Then(I64Op(WSub(secs, W(1))), LAMBDA s :
         Then(U32Op(WSub(W(1000), millis)), LAMBDA m : Val(<<s, m>>)))
    ELSE Val(<<secs, millis>>)

\* secs and ms: time_ms / 1000 and, for a negative time_ms,
\* (-time_ms % 1_000) as u32, adjusted; else (time_ms % 1000) as u32.
SecsMillis(time_ms) ==
    IF WLt(time_ms, WZero)
    THEN Then(I64Op(WNeg(time_ms)), LAMBDA n :
         AdjustNegative(WDivTrunc(time_ms, 1000), WrapU32(WRemTrunc(n, 1000))))
    ELSE Val(<<WDivTrunc(time_ms, 1000), WrapU32(WRemTrunc(time_ms, 1000))>>)

time_ms_to_secs_nsecs(time_ms) ==
    Then(SecsMillis(time_ms), LAMBDA sm :
    Then(U32Op(WMulSmall(WMulSmall(sm[2], 1000), 1000)), LAMBDA nsecs :
         Val(<<sm[1], nsecs>>)))

----------------------------------------------------------------------------
(* chrono date-times                                                       *)
(*                                                                         *)
(* A DateTime<Utc> or DateTime<FixedOffset> is the instant it stands for:  *)
(* secs = timestamp(), whole seconds since the epoch rounded down, and     *)
(* nsecs = timestamp_subsec_nanos(); a FixedOffset one also has off, its   *)
(* offset from UTC in seconds.                                             *)

SecsPerDay == 86400
NanosPerSec == 1000000000

\* The days since 1970-01-01 of chrono's first and last NaiveDate
\* (-262143-01-01 and +262142-12-31).
MinDays == -96465292
MaxDays == 95026236

\* The proleptic Gregorian date of a day number, and back.
CivilOfDoe(era, doe) ==
    LET yoe == (doe - doe \div 1460 + doe \div 36524 - doe \div 146096) \div 365
        doy == doe - (365 * yoe + yoe \div 4 - yoe \div 100)
        mp == (5 * doy + 2) \div 153
        m == IF mp < 10 THEN mp + 3 ELSE mp - 9
    IN [y |-> yoe + era * 400 + (IF m <= 2 THEN 1 ELSE 0), m |-> m,
        d |-> doy - (153 * mp + 2) \div 5 + 1]

civil_from_days(days) ==
    Let((days + 719468) \div 146097, LAMBDA era :
        Let(days + 719468 - era * 146097, LAMBDA doe : CivilOfDoe(era, doe)))

days_from_civil(y, m, d) ==
    LET yy == IF m <= 2 THEN y - 1 ELSE y
        era == yy \div 400
        yoe == yy - era * 400
        doy == (153 * (IF m > 2 THEN m - 3 ELSE m + 9) + 2) \div 5 + d - 1
        doe == yoe * 365 + yoe \div 4 - yoe \div 100 + doy
    IN era * 146097 + doe - 719468

DaysInRange(wdays) == Only({WLe(W(MinDays), x) /\ WLe(x, W(MaxDays)) : x \in {wdays}})

\* nsecs is a time within the second secs: below a second, or below two
\* in the last second of a minute (a leap second).
NanosInSecond(secs, nsecs) ==
    \/ WLt(nsecs, W(NanosPerSec))
    \/ /\ WLt(nsecs, WMulSmall(W(NanosPerSec), 2))
       /\ N(WModFloor(secs, 60)) = 59

\* NaiveDateTime::from_timestamp(secs, nsecs) and DateTime::from_utc: panics
\* ("invalid or out-of-range datetime") when the day is outside chrono's
\* dates or nsecs is not a time within the second.
from_timestamp(secs, nsecs) ==
    IF DaysInRange(WDivFloor(secs, SecsPerDay)) /\ NanosInSecond(secs, nsecs)
    THEN Val([secs |-> secs, nsecs |-> nsecs])
    ELSE Panic

\* A checked i64 operation whose mathematical value is w, unwrapped: an
\* overflow panics in every build.
Checked(w) == Only({IF FitsI64(x) THEN Val(x) ELSE Panic : x \in {w}})

\* timestamp.checked_mul(1_000_000_000) and then checked_add(subsec_nanos)
CheckedNanos(timestamp, subsec_nanos) ==
    Then(Checked(WMulSmall(WMulSmall(WMulSmall(timestamp, 1000), 1000), 1000)),
         LAMBDA as_ns : Checked(WAdd(as_ns, subsec_nanos)))

\* DateTime::timestamp_nanos(): the nanoseconds since the epoch in i64, or
\* a panic ("value can not be represented in a timestamp with nanosecond
\* precision.").  Before the epoch the sum is made from the second after,
\* less the rest of that second.
timestamp_nanos(dt) ==
    IF WLt(dt.secs, WZero)
    THEN CheckedNanos(WAdd(dt.secs, W(1)), WSub(dt.nsecs, W(NanosPerSec)))
    ELSE CheckedNanos(dt.secs, dt.nsecs)

\* (n + 500_000) / 1_000_000 in i64, of lib.rs:4, 70 and 100.
nanos_to_time_ms(n) ==
    Then(I64Op(WAdd(n, W(500000))),
         LAMBDA biased : Val(WDivTrunc(WDivTrunc(biased, 1000), 1000)))

time_ms_to_utc(time_ms) ==
    Then(time_ms_to_secs_nsecs(time_ms), LAMBDA sn : from_timestamp(sn[1], sn[2]))

utc_to_time_ms(date_time) ==
    Then(timestamp_nanos(date_time), LAMBDA n : nanos_to_time_ms(n))

fo_to_time_ms(date_time) ==
    Then(timestamp_nanos(date_time), LAMBDA n : nanos_to_time_ms(n))

\* (Utc::now().timestamp_nanos() + 500_000) / 1_000_000, for the time now
\* that the system clock reads.
\* Utc::now() panics when the system clock reads a time before the epoch.
utc_now_to_time_ms(now) ==
    IF WLt(now.secs, WZero) THEN Panic
    ELSE Then(timestamp_nanos(now), LAMBDA n : nanos_to_time_ms(n))

----------------------------------------------------------------------------
(* Strings are sequences of one-character strings.                         *)

Digits == <<"0", "1", "2", "3", "4", "5", "6", "7", "8", "9">>
DigitSet == {Digits[i] : i \in 1..10}
DigitVal(c) == (CHOOSE i \in 1..10 : Digits[i] = c) - 1

\* n >= 0 in decimal, zero-padded to at least width characters.
RECURSIVE Dec(_, _)
Dec(n, width) ==
    IF n < 10 /\ width <= 1 THEN <<Digits[n + 1]>>
    ELSE Dec(n \div 10, width - 1) \o <<Digits[(n % 10) + 1]>>

\* A year outside 0..9999 is written with its sign.
YearText(y) ==
    IF y < 0 THEN <<"-">> \o Dec(-y, 4)
    ELSE IF y > 9999 THEN <<"+">> \o Dec(y, 4)
    ELSE Dec(y, 4)

\* The date ymd, the second of the day sod and ns nanoseconds (a second or
\* more in a leap second) as RFC 3339 with three digits of milliseconds.
Rfc3339Millis(ymd, sod, ns, use_z) ==
    YearText(ymd.y) \o <<"-">> \o Dec(ymd.m, 2) \o <<"-">> \o Dec(ymd.d, 2)
    \o <<"T">> \o Dec(sod \div 3600, 2) \o <<":">> \o Dec((sod \div 60) % 60, 2)
    \o <<":">> \o Dec((sod % 60) + (IF ns >= NanosPerSec THEN 1 ELSE 0), 2)
    \o <<".">> \o Dec((ns % NanosPerSec) \div 1000000, 3)
    \o (IF use_z THEN <<"Z">> ELSE <<"+", "0", "0", ":", "0", "0">>)

\* DateTime<Utc>::to_rfc3339_opts(SecondsFormat::Millis, use_z)
to_rfc3339_opts_millis(dt, use_z) ==
    Rfc3339Millis(civil_from_days(N(WDivFloor(dt.secs, SecsPerDay))),
                  N(WModFloor(dt.secs, SecsPerDay)), N(dt.nsecs), use_z)

time_ms_to_utc_string(time_ms) ==
    Then(time_ms_to_utc(time_ms), LAMBDA dt : Val(to_rfc3339_opts_millis(dt, FALSE)))

\* A slip: the Z string asks for the numeric offset as the other one does.
z_string_without_z(time_ms) ==
    Then(time_ms_to_utc(time_ms), LAMBDA dt : Val(to_rfc3339_opts_millis(dt, FALSE)))

time_ms_to_utc_z_string(time_ms) ==
    Then(time_ms_to_utc(time_ms), LAMBDA dt : Val(to_rfc3339_opts_millis(dt, TRUE)))

----------------------------------------------------------------------------
(* chrono's parsing of the four formats lib.rs builds                      *)
(*                                                                         *)
(* A format is parsed item by item.  The scanner's state is whether every  *)
(* item so far matched, the position of the next character, and the        *)
(* numbers read so far.                                                    *)

FmtT == "%Y-%m-%dT%H:%M:%S%.f"
FmtSpace == "%Y-%m-%d %H:%M:%S%.f"
FmtTz == "%#z"

\* char::is_whitespace: the characters with the property White_Space.
\* Those a string of this module cannot hold are written by their code
\* points.
Whitespace ==
    { " ", "\t", "\n", "\r", "\f", "U+000B", "U+0085", "U+00A0", "U+1680",
      "U+2000", "U+2001", "U+2002", "U+2003", "U+2004", "U+2005", "U+2006",
      "U+2007", "U+2008", "U+2009", "U+200A", "U+2028", "U+2029", "U+202F",
      "U+205F", "U+3000" }

Ok(v) == [k |-> "Ok", v |-> v]
Err(e) == [k |-> "Err", v |-> e]
Panicked == [k |-> "panic", v |-> "panic"]

Start == [ok |-> TRUE, pos |-> 1, vals |-> <<>>]
Fail(st) == [st EXCEPT !.ok = FALSE]
Took(st, pos, val) == [ok |-> TRUE, pos |-> pos, vals |-> Append(st.vals, val)]

At(s, pos, set) == pos <= Len(s) /\ s[pos] \in set

\* The first position at or after pos that holds none of the characters.
Skip(s, pos, set) ==
    CHOOSE q \in pos..Len(s) + 1 :
        /\ \A i \in pos..q - 1 : s[i] \in set
        /\ ~At(s, q, set)

\* How many digits start at pos, counting at most maxw.
DigitRun(s, pos, maxw) ==
    CHOOSE n \in 0..maxw :
        /\ \A i \in 0..n - 1 : At(s, pos + i, DigitSet)
        /\ n = maxw \/ ~At(s, pos + n, DigitSet)

RECURSIVE NumVal(_, _, _)
NumVal(s, pos, n) ==
    IF n = 0 THEN 0 ELSE NumVal(s, pos, n - 1) * 10 + DigitVal(s[pos + n - 1])

\* n digits at p, n >= 1, are the next number, times sign.
Number(st, s, p, n, sign) ==
    IF n = 0 THEN Fail(st) ELSE Took(st, p + n, sign * NumVal(s, p, n))

\* A numeric item: whitespace is skipped, then 1 to maxw digits are taken.
NumAt(st, s, p, maxw) == Number(st, s, p, DigitRun(s, p, maxw), 1)
Num(s, st, maxw) ==
    IF ~st.ok THEN st ELSE NumAt(st, s, Skip(s, st.pos, Whitespace), maxw)

\* A year past every date of chrono.
YearTooLarge == 1000000

\* The number of n digits at pos, or YearTooLarge when it is that or more.
RECURSIVE YearVal(_, _, _)
YearVal(s, pos, n) ==
    IF n = 0 THEN 0
    ELSE Only({IF v >= YearTooLarge THEN YearTooLarge ELSE v
               : v \in {YearVal(s, pos, n - 1) * 10 + DigitVal(s[pos + n - 1])}})

\* The digits after the sign of a year, however many, are its number.
SignedYear(st, s, p, n, sign) ==
    IF n = 0 THEN Fail(st) ELSE Took(st, p + n, sign * YearVal(s, p, n))

\* %Y: up to four digits, or a sign and any number of digits.
YearAt(st, s, p) ==
    IF At(s, p, {"+", "-"})
    THEN SignedYear(st, s, p + 1, DigitRun(s, p + 1, Len(s)),
                    IF s[p] = "-" THEN -1 ELSE 1)
    ELSE NumAt(st, s, p, 4)
Year(s, st) ==
    IF ~st.ok THEN st ELSE YearAt(st, s, Skip(s, st.pos, Whitespace))

\* A literal character of the format.
Lit(s, st, c) ==
    IF st.ok /\ At(s, st.pos, {c}) THEN [st EXCEPT !.pos = @ + 1] ELSE Fail(st)

\* A space of the format: any whitespace, or none.
Space(s, st) ==
    IF st.ok THEN [st EXCEPT !.pos = Skip(s, @, Whitespace)] ELSE st

\* %.f: nothing, or a dot and digits; nine digits count, the rest are
\* skipped.  The number is in nanoseconds.
Pow10(k) == LET p[i \in 0..9] == IF i = 0 THEN 1 ELSE 10 * p[i - 1] IN p[k]
FracDigits(st, s, p, n) ==
    IF n = 0 THEN Fail(st)
    ELSE Took(st, Skip(s, p + n, DigitSet), NumVal(s, p, n) * Pow10(9 - n))
Frac(s, st) ==
    IF ~st.ok THEN st
    ELSE IF ~At(s, st.pos, {"."}) THEN Took(st, st.pos, 0)
    ELSE FracDigits(st, s, st.pos + 1, DigitRun(s, st.pos + 1, 9))

\* The signs of a negative offset: '-' and U+2212 MINUS SIGN.
MinusSigns == {"-", "U+2212"}

\* %#z: Z or z, or a sign, two digits of hours and, when two more
\* characters follow the optional colons and spaces, two digits of minutes
\* below 60.  The number is in seconds east of UTC.
OffsetMinutes(st, s, sign, hours, q) ==
    IF q + 1 > Len(s) THEN Took(st, q, sign * hours * 3600)
    ELSE IF DigitRun(s, q, 2) = 2 /\ NumVal(s, q, 2) < 60
    THEN Took(st, q + 2, sign * (hours * 3600 + NumVal(s, q, 2) * 60))
    ELSE Fail(st)
OffsetAt(st, s, p) ==
    IF At(s, p, {"Z", "z"}) THEN Took(st, p + 1, 0)
    ELSE IF At(s, p, {"+"} \cup MinusSigns) /\ DigitRun(s, p + 1, 2) = 2
    THEN OffsetMinutes(st, s, IF s[p] \in MinusSigns THEN -1 ELSE 1, NumVal(s, p + 1, 2),
                       Skip(s, p + 3, Whitespace \cup {":"}))
    ELSE Fail(st)
Offset(s, st) ==
    IF ~st.ok THEN st ELSE OffsetAt(st, s, Skip(s, st.pos, Whitespace))

\* %Y-%m-%d
DateItems(s) ==
    Num(s, Lit(s, Num(s, Lit(s, Year(s, Start), "-"), 2), "-"), 2)

\* %H:%M:%S%.f
TimeItems(s, st) ==
    Frac(s, Num(s, Lit(s, Num(s, Lit(s, Num(s, st, 2), ":"), 2), ":"), 2))

\* The items of FmtT and of FmtSpace.
NaiveItems(s, fmt) ==
    IF fmt = FmtT THEN TimeItems(s, Lit(s, DateItems(s), "T"))
    ELSE TimeItems(s, Space(s, DateItems(s)))

LeapYear(y) == (y % 4 = 0 /\ y % 100 # 0) \/ y % 400 = 0
DaysInMonth(y, m) ==
    IF m = 2 THEN (IF LeapYear(y) THEN 29 ELSE 28)
    ELSE IF m \in {4, 6, 9, 11} THEN 30 ELSE 31

\* The numbers read are a date and a time of day; second 60 is a leap
\* second.
ValidFields(v) ==
    /\ v[2] \in 1..12 /\ v[3] \in 1..DaysInMonth(v[1], v[2])
    /\ v[4] < 24 /\ v[5] < 60 /\ v[6] <= 60

\* The seconds from 1970-01-01T00:00:00 to the date and time read, and the
\* nanoseconds: a leap second is second 59 with a second or more of them.
LocalSecs(v) ==
    WAdd(WMulSmall(W(days_from_civil(v[1], v[2], v[3])), SecsPerDay),
         W(v[4] * 3600 + v[5] * 60 + (IF v[6] = 60 THEN 59 ELSE v[6])))
LocalNanos(v) == W(v[7] + (IF v[6] = 60 THEN NanosPerSec ELSE 0))

\* A date-time of chrono's range from the numbers read, off seconds east
\* of UTC.
DateTimeOf(v, off) ==
    Let(LocalSecs(v), LAMBDA local :
        IF /\ DaysInRange(WDivFloor(local, SecsPerDay))
           /\ DaysInRange(WDivFloor(WSub(local, W(off)), SecsPerDay))
        THEN Ok([secs |-> WSub(local, W(off)), nsecs |-> LocalNanos(v), off |-> off])
        ELSE Err("ParseError"))

\* NaiveDateTime::parse_from_str(s, fmt): the naive date-time, as the
\* instant it would be in UTC.
naive_parse_from_str(s, fmt) ==
    Let(NaiveItems(s, fmt), LAMBDA st :
        IF st.ok /\ st.pos = Len(s) + 1 /\ ValidFields(st.vals)
        THEN DateTimeOf(st.vals, 0)
        ELSE Err("ParseError"))

\* DateTime::parse_from_str(s, fmt \o "%#z"): a DateTime<FixedOffset>.
parse_from_str(s, fmt) ==
    Let(Offset(s, NaiveItems(s, fmt)), LAMBDA st :
        IF /\ st.ok /\ st.pos = Len(s) + 1 /\ ValidFields(st.vals)
           /\ -SecsPerDay < st.vals[8] /\ st.vals[8] < SecsPerDay
        THEN DateTimeOf(st.vals, st.vals[8])
        ELSE Err("ParseError"))

----------------------------------------------------------------------------
(* The local timezone                                                      *)
(*                                                                         *)
(* tz = [before, after, at]: instants before the UTC second `at` have the  *)
(* offset `before` (seconds east of UTC), the others the offset `after`.   *)
(* A zone without a transition has before = after.                         *)

\* The offsets the local second `local` has.  With start and end the local
\* seconds of the transition under the offsets before and after it: when
\* the clocks go forward the seconds after start and before end are
\* skipped, and when they go back the seconds from end to start have both
\* offsets; start itself counts with the seconds before the transition.
LocalOffsets(local, start, end) ==
    IF tz.before = tz.after THEN <<tz.before>>
    ELSE IF start > end
    THEN IF WLt(local, W(end)) THEN <<tz.before>>
         ELSE IF WLe(local, W(start)) THEN <<tz.after, tz.before>>
         ELSE <<tz.after>>
    ELSE IF WLe(local, W(start)) THEN <<tz.before>>
         ELSE IF WLt(local, W(end)) THEN <<>>
         ELSE <<tz.after>>

\* local.checked_sub_offset(off): the UTC second, when chrono has its date.
SubOffsetInRange(local, off) ==
    DaysInRange(WDivFloor(WSub(local, W(off)), SecsPerDay))

LocalResult(k, ndt, off) ==
    [k |-> k, secs |-> WSub(ndt.secs, W(off)), nsecs |-> ndt.nsecs, off |-> off]

\* A candidate whose UTC date-time chrono cannot represent leaves none.
LocalCandidates(ndt, offs) ==
    IF Len(offs) = 0 \/ \E i \in 1..Len(offs) : ~SubOffsetInRange(ndt.secs, offs[i])
    THEN LocalResult("None", ndt, tz.before)
    ELSE IF Len(offs) = 2 THEN LocalResult("Ambiguous", ndt, offs[1])
    ELSE LocalResult("Single", ndt, offs[1])

\* Local.from_local_datetime(ndt): the instants whose local date-time is
\* ndt, none, one or two.
from_local_datetime(ndt) ==
    LocalCandidates(ndt, LocalOffsets(ndt.secs, tz.at + tz.before, tz.at + tz.after))

----------------------------------------------------------------------------
(* dt_str_to_utc_time_ms                                                   *)

\* A slip: trim_start() for trim().
trim_start(s) ==
    LET keep == {i \in 1..Len(s) : s[i] \notin Whitespace}
    IN IF keep = {} THEN <<>>
       ELSE SubSeq(s, CHOOSE i \in keep : \A j \in keep : i <= j, Len(s))

\* str::trim(): without its leading and trailing whitespace.
trim(s) ==
    LET keep == {i \in 1..Len(s) : s[i] \notin Whitespace}
    IN IF keep = {} THEN <<>>
       ELSE SubSeq(s, CHOOSE i \in keep : \A j \in keep : i <= j,
                      CHOOSE i \in keep : \A j \in keep : j <= i)

\* s.matches(c).count()
CountChar(s, c) == Cardinality({i \in 1..Len(s) : s[i] = c})

\* dt_str.matches('+').count() > 0
has_pos_tz(dt_str) == CountChar(dt_str, "+") > 0

\* A character is written as itself when it is ASCII and by the name of
\* its code point, U+ and four to six hexadecimal digits, otherwise.
HexDigits == {"0", "1", "2", "3", "4", "5", "6", "7", "8", "9", "A", "B", "C", "D", "E", "F"}

\* The names of the code points below U+0080 and below U+0800.
BelowU0080 == {"U+00" \o a \o b : a \in {"0", "1", "2", "3", "4", "5", "6", "7"}, b \in HexDigits}
BelowU0800 ==
    {"U+0" \o a \o b \o c :
        a \in {"0", "1", "2", "3", "4", "5", "6", "7"}, b \in HexDigits, c \in HexDigits}

\* char::len_utf8: one byte below U+0080, two below U+0800, three below
\* U+10000 (a name of four digits) and four from there on.
Utf8Len(c) ==
    IF Len(c) = 1 \/ c \in BelowU0080 THEN 1
    ELSE IF c \in BelowU0800 THEN 2
    ELSE IF Len(c) = 6 THEN 3
    ELSE 4

\* The index of the character s[i] in the bytes of s, counting from 0.
RECURSIVE ByteIndex(_, _)
ByteIndex(s, i) == IF i = 1 THEN 0 ELSE ByteIndex(s, i - 1) + Utf8Len(s[i - 1])

\* A slip: the first '-' is looked at, not the last.
first_neg_tz(dt_str) ==
    LET at == {i \in 1..Len(dt_str) : dt_str[i] = "-"}
    IN IF at = {} THEN FALSE
       ELSE ByteIndex(dt_str, CHOOSE i \in at : \A j \in at : i <= j) > 7

\* rmatch_indices('-'): the last '-' is at a byte index above 7.
has_neg_tz(dt_str) ==
    LET at == {i \in 1..Len(dt_str) : dt_str[i] = "-"}
    IN IF at = {} THEN FALSE
       ELSE ByteIndex(dt_str, CHOOSE i \in at : \A j \in at : j <= i) > 7

\* Ok(f(&dt)) for a conversion f to time_ms that may panic.
OkOfMs(ms) == IF ms.ok THEN Ok(ms.v) ELSE Panicked

\* DateTime::parse_from_str(dt_str, &fs)? and Ok(fo_to_time_ms(&dtfo))
ParseWithTz(dt_str, fmt_str) ==
    Let(parse_from_str(dt_str, fmt_str), LAMBDA dtfo :
        IF dtfo.k = "Err" THEN dtfo ELSE OkOfMs(fo_to_time_ms(dtfo.v)))

HasTzArm(dt_str, fmt_str) == ParseWithTz(dt_str, fmt_str)

CondAddTzUtcArm(dt_str, fmt_str) ==
    IF ~has_pos_tz(dt_str) /\ ~has_neg_tz(dt_str)
    THEN ParseWithTz(dt_str \o <<"+", "0", "0", "0", "0">>, fmt_str)
    ELSE ParseWithTz(dt_str, fmt_str)

\* The match on Local.from_local_datetime(&ndt), then with_timezone(&Utc)
\* and utc_to_time_ms.
LocalToMs(ldt) ==
    IF ldt.k = "None" THEN Err("No result")
    ELSE IF ldt.k = "Ambiguous" THEN Err("Ambigious result")
    ELSE OkOfMs(utc_to_time_ms([secs |-> ldt.secs, nsecs |-> ldt.nsecs]))

LocalTzArm(dt_str, fmt_str) ==
    Let(naive_parse_from_str(dt_str, fmt_str), LAMBDA ndt :
        IF ndt.k = "Err" THEN ndt ELSE LocalToMs(from_local_datetime(ndt.v)))

dt_str_with_fmt_str_to_utc_time_ms(dt_str, fmt_str, tz_massaging) ==
    IF tz_massaging = "HasTz" THEN HasTzArm(trim(dt_str), fmt_str)
    ELSE IF tz_massaging = "CondAddTzUtc" THEN CondAddTzUtcArm(trim(dt_str), fmt_str)
    ELSE LocalTzArm(trim(dt_str), fmt_str)

dt_str_to_utc_time_ms(dt_str, tz_massaging) ==
    IF CountChar(dt_str, "T") = 1
    THEN dt_str_with_fmt_str_to_utc_time_ms(dt_str, FmtT, tz_massaging)
    ELSE dt_str_with_fmt_str_to_utc_time_ms(dt_str, FmtSpace, tz_massaging)

----------------------------------------------------------------------------
(* The calls a program makes                                               *)

\* A wide integer from its decimal digits.
RECURSIVE MOfDigits(_, _)
MOfDigits(s, n) ==
    IF n = 0 THEN MZero
    ELSE MAdd(MMulSmall(MOfDigits(s, n - 1), 10), MOfNat(DigitVal(s[n])))

WDec(neg, s) == WMk(neg, MOfDigits(s, Len(s)))

\* Bounds of the inputs.
MaxSec == 2
MaxOff == 2
MaxPad == 1

\* Milliseconds around the whole seconds nearest the epoch.
NearEpoch ==
    {W(sec * 1000 + d) : sec \in -MaxSec..MaxSec, d \in -MaxOff..MaxOff}

\* A time of the present day and its mirror image before the epoch.
Present == WDec(FALSE, <<"1", "7", "0", "0", "0", "0", "0", "0", "0", "0", "1", "2", "3">>)

\* The last millisecond count whose nanoseconds fit i64, and the next one.
NanosEdge == WDec(FALSE, <<"9", "2", "2", "3", "3", "7", "2", "0", "3", "6", "8", "5", "4">>)

\* The first and the last millisecond of chrono's dates.
FirstDate == WDec(TRUE, <<"8", "3", "3", "4", "6", "0", "1", "2", "2", "8", "8", "0", "0", "0", "0", "0">>)
LastDate == WDec(FALSE, <<"8", "2", "1", "0", "2", "6", "6", "8", "7", "6", "7", "9", "9", "9", "9", "9">>)

FarFromEpoch ==
    { Present, WNeg(Present),
      NanosEdge, WNeg(NanosEdge),
      WAdd(NanosEdge, W(1)), WNeg(WAdd(NanosEdge, W(1))),
      FirstDate, WSub(FirstDate, W(1)), LastDate, WAdd(LastDate, W(1)),
      I64Max, I64Min, WAdd(I64Min, W(1)) }

TimeMsInputs == NearEpoch \cup FarFromEpoch

\* Instants that are not whole milliseconds, either side of the epoch.
SubMillis ==
    {0, 1, 499999, 500000, 500001, 999999, 1000000, 1500000,
     998500000, 999499999, 999500000, 999999999}

DateTimeInputs ==
    {[secs |-> W(sec), nsecs |-> W(ns)] : sec \in -MaxSec..MaxSec - 1, ns \in SubMillis}

Policies == {"CondAddTzUtc", "HasTz", "LocalTz"}

Dates ==
    { <<"1", "9", "7", "0", "-", "0", "1", "-", "0", "1">>,
      <<"1", "9", "6", "9", "-", "1", "2", "-", "3", "1">>,
      <<"2", "2", "6", "2", "-", "0", "4", "-", "1", "2">> }
Seps ==
    { <<"T">>,
      <<" ">> }
Times ==
    { <<"0", "0", ":", "0", "0", ":", "0", "0">>,
      <<"1", "6", ":", "0", "0", ":", "0", "0">> }
Fracs ==
    { <<>>,
      <<".", "1", "2", "3">>,
      <<".", "0", "0", "0", "5">> }
Offsets ==
    { <<>>,
      <<"+", "0", "0", "0", "0">>,
      <<"+", "0", "0">>,
      <<"-", "0", "8", "0", "0">>,
      <<"+", "0", "1", ":", "0", "0">>,
      <<"Z">> }
Malformed ==
    { <<"g", "a", "r", "b", "a", "g", "e">>,
      <<"1", "9", "7", "0", "-", "1", "3", "-", "0", "1", " ", "0", "0", ":", "0", "0", ":", "0", "0">>,
      <<"1", "9", "7", "0", "-", "0", "1", "-", "0", "1", "T", "0", "0", ":", "0", "0", ":", "0", "0", "T">>,
      <<"7", "0", "-", "1", "-", "1", " ", "0", ":", "0", ":", "0", " ", "-", "0", "8">>,
      <<"1", "9", "7", "0", "-", "0", "1", "-", "0", "1", "T", "0", "0", ":", "0", "0", ":", "0", "0", ".", "5", "+", "2", "4", "0", "0">> }

\* Whitespace other than spaces, a signed year of many digits, the year
\* before chrono's first, the half hour and the hour after the epoch, the
\* last and the first second of chrono's dates, a no-break space in the
\* date, an offset with U+2212 for its sign, and characters of two, three
\* and four bytes before a '-'.
Unusual ==
    { <<"U+00E9", "U+00E9", "U+00E9", "U+00E9", "-">>,
      <<"1", "9", "7", "0", "-", "U+20AC", "1", "-", "0", "1", " ", "0", "0", ":", "0", "0", ":", "0", "0">>,
      <<"U+1F600", "9", "7", "0", "-", "0", "1", "-", "0", "1", " ", "0", "0", ":", "0", "0", ":", "0", "0">>,
      <<"1", "9", "7", "0", "-", "0", "1", "-", "0", "1", "T", "0", "0", ":", "3", "0", ":", "0", "0">>,
      <<"1", "9", "7", "0", "-", "0", "1", "-", "0", "1", "T", "0", "1", ":", "0", "0", ":", "0", "0">>,
      <<"+", "2", "6", "2", "1", "4", "2", "-", "1", "2", "-", "3", "1", "T", "2", "3", ":", "5", "9", ":", "5", "9">>,
      <<"-", "2", "6", "2", "1", "4", "3", "-", "0", "1", "-", "0", "1", "T", "0", "0", ":", "0", "0", ":", "0", "0">>,
      <<"1", "9", "7", "0", "-", "U+00A0", "1", "-", "0", "1", " ", "0", "0", ":", "0", "0", ":", "0", "0">>,
      <<"1", "9", "7", "0", "-", "0", "1", "-", "0", "1", "T", "0", "0", ":", "0", "0", ":", "0", "0", "U+2212", "0", "8", "0", "0">>,
      <<"1", "9", "7", "0", "-", "0", "1", "-", "0", "1", "\r", "0", "0", ":", "0", "0", ":", "0", "0", "+", "0", "0", "0", "0">>,
      <<"1", "9", "7", "0", "-", "0", "1", "-", "0", "1", "T", "0", "0", ":", "0", "0", ":", "0", "0", "\r", "\n">>,
      <<"+", "0", "0", "0", "1", "9", "7", "0", "-", "0", "1", "-", "0", "1", "T", "0", "0", ":", "0", "0", ":", "0", "0", "Z">>,
      <<"-", "2", "6", "2", "1", "4", "4", "-", "0", "1", "-", "0", "1", "T", "0", "0", ":", "0", "0", ":", "0", "0", "+", "0", "0", "0", "0">> }

\* n characters of whitespace.
Pad(n) == [i \in 1..n |-> IF i % 2 = 1 THEN " " ELSE "\t"]

Cores ==
    {d \o p \o t \o f \o o : d \in Dates, p \in Seps, t \in Times, f \in Fracs, o \in Offsets}
    \cup Malformed \cup Unusual \cup {<<>>}

Strings == {Pad(l) \o c \o Pad(r) : l \in 0..MaxPad, r \in 0..MaxPad, c \in Cores}

\* Local timezones: two without a transition, west and east of UTC, one
\* that puts its clocks forward an hour at the epoch and one that puts
\* them back.
Zones ==
    { [before |-> -28800, after |-> -28800, at |-> 0],
      [before |-> 3600, after |-> 3600, at |-> 0],
      [before |-> 0, after |-> 3600, at |-> 0],
      [before |-> 3600, after |-> 0, at |-> 0] }

NoOrigin == [set |-> FALSE, v |-> WZero]

Init ==
    /\ build \in {"debug", "release"}
    /\ tz \in Zones
    /\ op = "idle"
    /\ arg = <<>>
    /\ ret = Val(<<>>)
    /\ origin = NoOrigin

Call(name, a, r) ==
    /\ op = "idle"
    /\ op' = name
    /\ arg' = a
    /\ ret' = r
    /\ origin' = NoOrigin
    /\ UNCHANGED <<build, tz>>

Call_time_ms_to_secs_nsecs ==
    \E t \in TimeMsInputs :
        Call("time_ms_to_secs_nsecs", t, time_ms_to_secs_nsecs(t))

Call_time_ms_to_utc ==
    \E t \in TimeMsInputs : Call("time_ms_to_utc", t, time_ms_to_utc(t))

Call_utc_to_time_ms ==
    \E dt \in DateTimeInputs : Call("utc_to_time_ms", dt, utc_to_time_ms(dt))

\* utc_to_time_ms(&Utc::now()): arg records what the clock read.
Call_utc_now_to_time_ms ==
    \E now \in DateTimeInputs :
        Call("utc_now_to_time_ms", now, utc_now_to_time_ms(now))

\* utc_to_time_ms(&time_ms_to_utc(time_ms)): the date-time just returned
\* is converted back.
RoundTrip ==
    /\ op = "time_ms_to_utc"
    /\ ret.ok
    /\ op' = "utc_to_time_ms"
    /\ arg' = ret.v
    /\ ret' = utc_to_time_ms(ret.v)
    /\ origin' = [set |-> TRUE, v |-> arg]
    /\ UNCHANGED <<build, tz>>

Call_time_ms_to_utc_string ==
    \E t \in TimeMsInputs :
        Call("time_ms_to_utc_string", t, time_ms_to_utc_string(t))

Call_time_ms_to_utc_z_string ==
    \E t \in TimeMsInputs :
        Call("time_ms_to_utc_z_string", t, time_ms_to_utc_z_string(t))

Call_dt_str_to_utc_time_ms ==
    \E s \in Strings, p \in Policies :
        Call("dt_str_to_utc_time_ms", <<s, p>>, dt_str_to_utc_time_ms(s, p))

Return ==
    /\ op # "idle"
    /\ op' = "idle"
    /\ arg' = <<>>
    /\ ret' = Val(<<>>)
    /\ origin' = NoOrigin
    /\ UNCHANGED <<build, tz>>

Next ==
    \/ Call_time_ms_to_secs_nsecs
    \/ Call_time_ms_to_utc
    \/ Call_utc_to_time_ms
    \/ Call_utc_now_to_time_ms
    \/ RoundTrip
    \/ Call_time_ms_to_utc_string
    \/ Call_time_ms_to_utc_z_string
    \/ Call_dt_str_to_utc_time_ms
    \/ Return

Spec == Init /\ [][Next]_vars

----------------------------------------------------------------------------
(* The properties                                                          *)

Same(a, b) == WCmp(a, b) = 0

\* Two results of dt_str_to_utc_time_ms agree: the same value, the same
\* error, or a panic both times.
SameResult(a, b) ==
    /\ a.k = b.k
    /\ a.k = "Ok" => Same(a.v, b.v)
    /\ a.k = "Err" => a.v = b.v

\* The nanoseconds from the epoch to an instant, in the integers.
Nanos(dt) == WAdd(WMulSmall(WMulSmall(WMulSmall(dt.secs, 1000), 1000), 1000), dt.nsecs)

\* The millisecond nearest to n nanoseconds, a tie going up: the floor of
\* (n + 500_000) / 1_000_000, in the integers.
RoundHalfUp(n) == WDivFloor(WDivFloor(WAdd(n, W(500000)), 1000), 1000)

\* The layout dt_str is read in.
Layout(dt_str) == IF CountChar(dt_str, "T") = 1 THEN FmtT ELSE FmtSpace

\* t holds a '+', or a '-' at an index above 7 counting from 0.
\* t holds a '+', or a '-' after the index 7, counting characters from 0.
HasOffsetSign(t) ==
    \/ \E i \in 1..Len(t) : t[i] = "+"
    \/ \E i \in 1..Len(t) : t[i] = "-" /\ i - 1 > 7

\* The UTF-8 encoding of t, byte by byte: an ASCII character is its own
\* byte, and the bytes of another character are not told apart.
RECURSIVE Utf8(_, _)
Utf8(t, n) ==
    IF n = 0 THEN <<>>
    ELSE Utf8(t, n - 1) \o [j \in 1..Utf8Len(t[n]) |-> IF Utf8Len(t[n]) = 1 THEN t[n] ELSE "byte"]

\* b holds a '+', or a '-' after the index 7, counting from 0.
SignAfter7(b) ==
    \/ \E i \in 1..Len(b) : b[i] = "+"
    \/ \E i \in 1..Len(b) : b[i] = "-" /\ i - 1 > 7

\* The same as HasOffsetSign, counting the bytes of the UTF-8 encoding of t.
HasOffsetSignAtByte(t) == SignAfter7(Utf8(t, Len(t)))

\* The offset of the local timezone at the UTC second u.
ZoneOffsetAt(u) == IF WLt(u, W(tz.at)) THEN tz.before ELSE tz.after

\* The offsets under which the local second `local` exists.
Interpretations(local) ==
    {o \in {tz.before, tz.after} : ZoneOffsetAt(WSub(local, W(o))) = o}

\* The instant dt_str denotes under a policy, with its offset from UTC.
DenotedLocal(ndt) ==
    IF ndt.k = "Err" \/ Cardinality(Interpretations(ndt.v.secs)) # 1 THEN Err("none")
    ELSE Let(CHOOSE o \in Interpretations(ndt.v.secs) : TRUE, LAMBDA o :
             Ok([secs |-> WSub(ndt.v.secs, W(o)), nsecs |-> ndt.v.nsecs, off |-> o]))
Denoted(dt_str, policy) ==
    IF policy = "HasTz" THEN parse_from_str(trim(dt_str), Layout(dt_str))
    ELSE IF policy = "CondAddTzUtc"
    THEN parse_from_str(IF HasOffsetSignAtByte(trim(dt_str)) THEN trim(dt_str)
                        ELSE trim(dt_str) \o <<"+", "0", "0", "0", "0">>,
                        Layout(dt_str))
    ELSE DenotedLocal(naive_parse_from_str(trim(dt_str), Layout(dt_str)))

\* C1: for every time_ms, negative, zero or positive,
\* utc_to_time_ms(time_ms_to_utc(time_ms)) returns exactly time_ms.
C1_RoundTrip ==
    op = "utc_to_time_ms" /\ origin.set => ret.ok /\ Same(ret.v, origin.v)

\* nsecs is ms milliseconds, below a second, and secs seconds and ms
\* milliseconds are time_ms.
SplitsExactly(time_ms, secs, nsecs, ms) ==
    /\ WLe(WZero, nsecs) /\ WLe(nsecs, W(999999999))
    /\ Same(nsecs, WMulSmall(WMulSmall(ms, 1000), 1000))
    /\ Same(WAdd(WMulSmall(secs, 1000), ms), time_ms)

\* C2: for every time_ms, time_ms_to_secs_nsecs returns, without an
\* arithmetic overflow, (secs, nsecs) with 0 <= nsecs <= 999_999_999, nsecs
\* a multiple of 1_000_000 and secs * 1000 + nsecs / 1_000_000 = time_ms.
C2_SecsNsecs ==
    op = "time_ms_to_secs_nsecs" =>
        /\ ret.ok
        /\ SplitsExactly(arg, ret.v[1], ret.v[2],
                         WDivTrunc(WDivTrunc(ret.v[2], 1000), 1000))

\* C3: utc_to_time_ms returns, for an instant n nanoseconds from the epoch,
\* before it or after it, the millisecond nearest to n / 1_000_000, a tie
\* going up.
C3_RoundHalfUp ==
    op = "utc_to_time_ms" => ret.ok /\ Same(ret.v, RoundHalfUp(Nanos(arg)))

\* An Ok result holds the milliseconds of the instant denoted.
OkIsOf(r, denoted) ==
    r.k = "Ok" => denoted.k = "Ok" /\ Same(r.v, RoundHalfUp(Nanos(denoted.v)))

\* C4: for every string and policy dt_str_to_utc_time_ms returns Err, or
\* Ok with the milliseconds of the instant the string denotes; it never
\* panics and never returns another value, also when the nanoseconds of
\* the instant do not fit i64.
C4_OkOrErr ==
    op = "dt_str_to_utc_time_ms" =>
        /\ ret.k \in {"Ok", "Err"}
        /\ OkIsOf(ret, Denoted(arg[1], arg[2]))

\* What HasTz returns for t, followed by +0000 when t has no offset sign.
AsHasTz(t, sign) ==
    dt_str_to_utc_time_ms(IF sign THEN t ELSE t \o <<"+", "0", "0", "0", "0">>, "HasTz")

\* C5, as stated: with t the trimmed string, CondAddTzUtc returns what HasTz
\* returns for t followed by +0000 when t holds no '+' and no '-' at an
\* index above 7, and what HasTz returns for t otherwise, value or failure
\* alike; the index is the number of characters before the '-'.
C5_CondAddTzUtc ==
    op = "dt_str_to_utc_time_ms" /\ arg[2] = "CondAddTzUtc" =>
        SameResult(ret, AsHasTz(trim(arg[1]), HasOffsetSign(trim(arg[1]))))

\* C5, amended: the same with the index of a '-' counted in the bytes of
\* the UTF-8 encoding of t.
C5_ByteIndex ==
    op = "dt_str_to_utc_time_ms" /\ arg[2] = "CondAddTzUtc" =>
        SameResult(ret, AsHasTz(trim(arg[1]), HasOffsetSignAtByte(trim(arg[1]))))

\* A padded string without an offset was read as UTC.
C5_Witness ==
    /\ op = "dt_str_to_utc_time_ms" /\ arg[2] = "CondAddTzUtc"
    /\ ret.k = "Ok"
    /\ ~HasOffsetSignAtByte(trim(arg[1]))
    /\ Len(arg[1]) > Len(trim(arg[1]))

\* The epoch milliseconds of the wall-clock time of d, less its offset.
WallLessOffset(d) ==
    WSub(RoundHalfUp(Nanos([secs |-> WAdd(d.secs, W(d.off)), nsecs |-> d.nsecs])),
         WMulSmall(W(d.off), 1000))

\* C6: under HasTz a string with the wall-clock time W and the offset O
\* returns the epoch milliseconds of W less O.
C6_NormalisedToUtc ==
    op = "dt_str_to_utc_time_ms" /\ arg[2] = "HasTz" /\ ret.k = "Ok" =>
        Same(ret.v, WallLessOffset(Denoted(arg[1], "HasTz").v))

\* s from its first character that is not whitespace to its last one.
Unpadded(s) ==
    IF \A i \in 1..Len(s) : s[i] \in Whitespace THEN <<>>
    ELSE SubSeq(s, Skip(s, 1, Whitespace),
                CHOOSE j \in 1..Len(s) :
                    /\ s[j] \notin Whitespace
                    /\ \A i \in j + 1..Len(s) : s[i] \in Whitespace)

\* C7: whitespace added before and after a string changes neither the
\* value nor the failure dt_str_to_utc_time_ms returns, under any policy.
C7_Whitespace ==
    op = "dt_str_to_utc_time_ms" =>
        SameResult(ret, dt_str_to_utc_time_ms(Unpadded(arg[1]), arg[2]))

\* A string with whitespace before and after it was read.
C7_Witness ==
    /\ op = "dt_str_to_utc_time_ms"
    /\ ret.k = "Ok"
    /\ Len(arg[1]) > 0 /\ arg[1][1] \in Whitespace /\ arg[1][Len(arg[1])] \in Whitespace

\* The result r for a date-time the local timezone has n times.
LocalOutcome(r, n) ==
    /\ n = 0 => r.k = "Err" /\ r.v = "No result"
    /\ n = 2 => r.k = "Err" /\ r.v # "No result" /\ r.v # "ParseError"
    /\ r.k = "Ok" => n = 1
LocalOutcomeOf(r, ndt) ==
    ndt.k = "Ok" => LocalOutcome(r, Cardinality(Interpretations(ndt.v.secs)))

\* C8: under LocalTz a date-time the local timezone does not have returns
\* the error "No result", one it has twice returns another error, and Ok is
\* returned only for one it has once.
C8_LocalTz ==
    op = "dt_str_to_utc_time_ms" /\ arg[2] = "LocalTz" =>
        LocalOutcomeOf(ret, naive_parse_from_str(trim(arg[1]), Layout(arg[1])))

\* The value of r plus the offset of d is the milliseconds of the local
\* date-time of d read as UTC.
LocalPlusOffset(r, d) ==
    Same(WAdd(r.v, WMulSmall(W(d.off), 1000)),
         RoundHalfUp(Nanos([secs |-> WAdd(d.secs, W(d.off)), nsecs |-> d.nsecs])))

\* C9: under LocalTz, for a string the local timezone has once, the value
\* returned plus the local offset in milliseconds is the epoch milliseconds
\* of the same string read as UTC: 0 for 1970-01-01T00:00:00.
C9_LocalOffset ==
    /\ op = "dt_str_to_utc_time_ms" /\ arg[2] = "LocalTz" /\ ret.k = "Ok"
    /\ Denoted(arg[1], "LocalTz").k = "Ok"
    => LocalPlusOffset(ret, Denoted(arg[1], "LocalTz").v)

\* The text of a Z string: a dot, the three digits of ms and a Z end it,
\* and the other string is the same with +00:00 for the Z.
ZText(z, other, ms) ==
    /\ Len(z) >= 5 /\ z[Len(z)] = "Z"
    /\ SubSeq(z, Len(z) - 4, Len(z) - 1) = <<".">> \o Dec(ms, 3)
    /\ other.ok
    /\ other.v = SubSeq(z, 1, Len(z) - 1) \o <<"+", "0", "0", ":", "0", "0">>

\* C10, as stated: for every time_ms the two strings are the same date-time
\* with three digits of milliseconds, ending in Z and in +00:00.
C10_EveryTimeMs ==
    op = "time_ms_to_utc_z_string" =>
        /\ ret.ok
        /\ ZText(ret.v, time_ms_to_utc_string(arg), N(WModFloor(arg, 1000)))

\* C10, amended: for every time_ms that time_ms_to_utc has a date-time for,
\* the two strings are the same date-time with three digits of milliseconds,
\* the non-negative remainder of time_ms, ending in Z and in +00:00.
C10_SameButSuffix ==
    op = "time_ms_to_utc_z_string" /\ time_ms_to_utc(arg).ok =>
        /\ ret.ok
        /\ ZText(ret.v, time_ms_to_utc_string(arg), N(WModFloor(arg, 1000)))

\* The Z string of a time before the epoch that is not a whole second.
C10_Witness ==
    /\ op = "time_ms_to_utc_z_string"
    /\ ret.ok
    /\ WLt(arg, WZero)
    /\ N(WModFloor(arg, 1000)) > 0

====
